---- MODULE Spec2Model ----
(***************************************************************************)
(* Model of daily-photo/photo-selection.js: the date-driven selection of   *)
(* one item of a collection (getCycleSeed, getDayInCycle, seededShuffle,   *)
(* selectByDate).                                                          *)
(*                                                                         *)
(* JavaScript values are modelled as follows.                              *)
(*  - A number is a record [kind, n]: kind "num" carries the integer n,    *)
(*    the kinds "NaN", "+Infinity" and "-Infinity" are the non-finite      *)
(*    doubles, and "undefined" is a local that has not been assigned.      *)
(*    -0 is modelled as 0 (as a property key both are "0").                *)
(*  - An array is a record [elems, props, nanProp]: elems is the indexed   *)
(*    part (index k of the code is position k+1 of the sequence), props    *)
(*    the own properties with a negative integer key ("-1", "-2", ...),    *)
(*    nanProp the own property "NaN".  A missing slot reads "undefined".   *)
(*  - A date is a record [isDate, time]: isDate is FALSE for a value that  *)
(*    has no getTime method (null, undefined), time is the time value of   *)
(*    a Date object, NaN for an Invalid Date.                              *)
(***************************************************************************)
EXTENDS Integers, Sequences, FiniteSets

\* ---------------------------------------------------------------- bounds
MaxLen == 5      \* longest collection handed to selectByDate
MaxDay == 20     \* dates range over the days -MaxDay .. MaxDay around the epoch

\* ------------------------------------------------------------- constants
MsPerDay   == 1000 * 60 * 60 * 24
Multiplier == 9301
Increment  == 49297
Modulus    == 233280

\* ------------------------------------------------------------ JS numbers
Num(n)    == [kind |-> "num", n |-> n]
NaN       == [kind |-> "NaN", n |-> 0]
PosInf    == [kind |-> "+Infinity", n |-> 0]
NegInf    == [kind |-> "-Infinity", n |-> 0]
Undefined == [kind |-> "undefined", n |-> 0]

\* a % m of the code on integers, m > 0: the remainder takes the sign of a
TruncRem(a, m) == IF a >= 0 THEN a % m ELSE 0 - ((0 - a) % m)

\* Math.floor(x / k) for a number x and an integer k >= 0
MathFloorDiv(x, k) ==
  CASE x.kind = "num" /\ k > 0 -> Num(x.n \div k)
    [] x.kind = "num" /\ k = 0 -> IF x.n > 0 THEN PosInf
                                  ELSE IF x.n < 0 THEN NegInf ELSE NaN
    [] x.kind = "+Infinity"    -> PosInf
    [] x.kind = "-Infinity"    -> NegInf
    [] OTHER                   -> NaN

\* x % k for a number x and an integer k >= 0
JsRemainder(x, k) ==
  IF x.kind = "num" /\ k > 0 THEN Num(TruncRem(x.n, k)) ELSE NaN

\* Math.floor(date.getTime() / (1000 * 60 * 60 * 24))
daysSinceEpoch(date) == MathFloorDiv(date.time, MsPerDay)

getCycleSeed(date, arrayLength) ==
  MathFloorDiv(daysSinceEpoch(date), arrayLength)

getDayInCycle(date, arrayLength) ==
  JsRemainder(daysSinceEpoch(date), arrayLength)

\* ------------------------------------------------------------- JS arrays
ArrayOf(seq) == [elems |-> seq, props |-> <<>>, nanProp |-> "undefined"]

Length(obj) == Len(obj.elems)

\* obj[k]
Get(obj, k) ==
  CASE k.kind = "NaN" -> obj.nanProp
    [] k.kind = "num" /\ k.n >= 0 /\ k.n < Length(obj) -> obj.elems[k.n + 1]
    [] k.kind = "num" /\ k.n < 0 /\ k.n \in DOMAIN obj.props -> obj.props[k.n]
    [] OTHER -> "undefined"

\* obj[k] = v
Put(obj, k, v) ==
  CASE k.kind = "NaN" -> [obj EXCEPT !.nanProp = v]
    [] k.kind = "num" /\ k.n >= 0 /\ k.n < Length(obj) ->
         [obj EXCEPT !.elems[k.n + 1] = v]
    [] k.kind = "num" /\ k.n >= Length(obj) ->     \* the array grows, with holes
         [obj EXCEPT !.elems =
            [x \in 1..(k.n + 1) |->
               IF x = k.n + 1 THEN v
               ELSE IF x <= Length(obj) THEN obj.elems[x] ELSE "undefined"]]
    [] k.kind = "num" /\ k.n < 0 ->
         [obj EXCEPT !.props =
            [x \in (DOMAIN obj.props) \cup {k.n} |->
               IF x = k.n THEN v ELSE obj.props[x]]]

\* [...array]: a new array holding the indexed elements of array
SpreadCopy(obj) == ArrayOf(obj.elems)

\* ------------------------------------------------------- the generator
\* (random * 9301 + 49297) % 233280 on integers.  The product is split as
\* 9301 = 93 * 100 + 1 and reduced between the factors so that every
\* intermediate value stays below 2^31; the value is that of the code's
\* expression, which doubles compute exactly.  The sum is negative exactly
\* when random * 9301 < -49297, that is when random < -(49297 \div 9301),
\* and then the remainder is negative or 0.
\* variant of LcgRem: the increment is left out, (random * 9301) % 233280
LcgRemNoIncrement(r) ==
  LET e == ((((r % Modulus) * 93) % Modulus) * 100 + (r % Modulus)) % Modulus
  IN  IF r >= 0 \/ e = 0 THEN e ELSE e - Modulus

LcgRem(r) ==
  LET e == ((((r % Modulus) * 93) % Modulus) * 100 + (r % Modulus) + Increment)
             % Modulus
  IN  IF r >= 0 - (Increment \div Multiplier) \/ e = 0 THEN e ELSE e - Modulus

\* the assignment in seededRandom: the next generator state
seededRandomState(random) ==
  IF random.kind = "num" THEN Num(LcgRem(random.n)) ELSE NaN

\* ---------------------------------------------- the draw, in doubles
\* seededRandom returns the double nearest to random / 233280, and line 47
\* rounds the product of that double and i + 1 once more before
\* Math.floor.  With a = |random| < 233280 and n = i + 1 the two roundings
\* change the floor only when a * n is a multiple of 233280, that is when
\* the exact product is an integer k: otherwise the exact product is at
\* least 1/233280 away from every integer, far more than the roundings
\* move it.  The definitions below follow the two roundings in integers.

\* the c >= 1 with 2^-c <= a / 233280 < 2^-(c-1), for 0 < a < 233280
BinaryShift(a) ==
  CHOOSE c \in 1..18 : a * 2^c >= Modulus /\ a * 2^(c - 1) < Modulus

\* the e >= 0 with 2^e <= k < 2^(e+1), for 0 < k < 2^30
BinaryExponent(k) ==
  CHOOSE e \in 0..29 : 2^e <= k /\ k < 2^(e + 1)

\* (x * 2^t) % 233280 for 0 <= x < 233280, twelve doublings at a time
RECURSIVE DoubleMod(_, _)
DoubleMod(x, t) ==
  IF t <= 12 THEN (x * 2^t) % Modulus
  ELSE DoubleMod((x * 2^12) % Modulus, t - 12)

\* The rounding error of the division a / 233280 in units of
\* 2^-(52 + BinaryShift(a)) / 233280: the quotient has a 53-bit mantissa m,
\* the nearest integer to a * 2^s / 233280 with s = 52 + BinaryShift(a),
\* and the error is m * 233280 - a * 2^s.  No tie occurs (2^s * a is a
\* multiple of 64, half of 233280 is not).
DivisionError(a) ==
  LET rem == DoubleMod(a, 52 + BinaryShift(a))
  IN  IF 2 * rem > Modulus THEN Modulus - rem ELSE 0 - rem

\* x > 233280 * 2^t for t >= -1, without forming the right-hand side
ExceedsScaled(x, t) ==
  IF t < 0 THEN 2 * x > Modulus
  ELSE \/ x \div Modulus > 2^t
       \/ (x \div Modulus = 2^t /\ x % Modulus > 0)

\* Math.floor((r / 233280) * n) for integers 0 < |r| < 233280 and n >= 1
\* with r * n a multiple of 233280.  The product in doubles is k plus
\* n * DivisionError / (233280 * 2^s); it rounds away from k when that
\* exceeds half the distance to the next double on that side (a tie goes
\* to k, whose mantissa is even).  Below a power of two the doubles are
\* twice as dense.  A positive product that lands below k floors to
\* k - 1, a negative one that lands below -k floors to -k - 1.
FloorOfIntegerProduct(r, n) ==
  LET a == IF r >= 0 THEN r ELSE 0 - r
      k == (a * n) \div Modulus
      E == DivisionError(a)
      h == BinaryShift(a) + BinaryExponent(k) - 1
      pow2 == 2^BinaryExponent(k) = k
  IN  IF r > 0
      THEN IF E < 0 /\ ExceedsScaled(n * (0 - E), IF pow2 THEN h - 1 ELSE h)
           THEN k - 1 ELSE k
      ELSE IF E > 0 /\ ExceedsScaled(n * E, h)
           THEN 0 - k - 1 ELSE 0 - k

\* Math.floor(seededRandom() * (i + 1)), from the state the call left
drawIndex(random, i) ==
  IF random.kind # "num" THEN NaN
  ELSE IF random.n * (i + 1) = 0 THEN Num(0)
  ELSE IF (random.n * (i + 1)) % Modulus # 0
       THEN Num((random.n * (i + 1)) \div Modulus)
       ELSE Num(FloorOfIntegerProduct(random.n, i + 1))

\* [arr[i], arr[j]] = [arr[j], arr[i]]
swap(obj, i, j) ==
  LET vj == Get(obj, j)
      vi == Get(obj, Num(i))
  IN  Put(Put(obj, Num(i), vj), j, vi)

RECURSIVE shuffleLoop(_, _, _)
shuffleLoop(arr, random, i) ==
  IF i > 0
  THEN LET r == seededRandomState(random)
       IN  shuffleLoop(swap(arr, i, drawIndex(r, i)), r, i - 1)
  ELSE arr

seededShuffle(array, seed) ==
  shuffleLoop(SpreadCopy(array), seed, Length(array) - 1)

\* the value selectByDate returns; "TypeError" when date.getTime() throws
selectByDate(array, date) ==
  IF Length(array) = 0 THEN "null"
  ELSE IF ~date.isDate THEN "TypeError"
  ELSE Get(seededShuffle(array, getCycleSeed(date, Length(array))),
           getDayInCycle(date, Length(array)))

\* ------------------------------------------------------------ the inputs
Items == <<"A", "B", "C", "D", "E", "F", "G", "H">>

Reverse(seq) == [x \in 1..Len(seq) |-> seq[Len(seq) + 1 - x]]

\* collections of pairwise-distinct items, of every length up to MaxLen
Collections ==
  {ArrayOf(SubSeq(Items, 1, n)) : n \in 0..MaxLen} \cup
  {ArrayOf(Reverse(SubSeq(Items, 1, n))) : n \in 2..MaxLen}

DateOf(ms)  == [isDate |-> TRUE, time |-> Num(ms)]
InvalidDate == [isDate |-> TRUE, time |-> NaN]         \* new Date(NaN)
NotADate    == [isDate |-> FALSE, time |-> Undefined]  \* null, undefined

\* the first and the last millisecond of every day in range, an Invalid
\* Date, and a value that is no Date
Dates ==
  {DateOf(d * MsPerDay + off) : d \in (0 - MaxDay)..MaxDay, off \in {0, MsPerDay - 1}}
    \cup {InvalidDate, NotADate}

\* ------------------------------------------------------------- the state
VARIABLES
  pc,        \* "idle", "loop" (in the loop of seededShuffle), "done" (returned), "fault" (threw)
  date,      \* the date argument of selectByDate
  heap,      \* the array objects: heap.array is the caller's, heap.copy the one seededShuffle creates
  arr,       \* the object the local arr of seededShuffle names
  seed,      \* local of selectByDate
  dayIndex,  \* local of selectByDate
  random,    \* generator state of seededShuffle
  i,         \* loop index of seededShuffle
  j,         \* index drawn in the last iteration
  result,    \* value returned by selectByDate
  calls,     \* number of calls made with the present arguments
  first      \* what the first of these calls returned

vars == <<pc, date, heap, arr, seed, dayIndex, random, i, j, result, calls, first>>

NoFirst == [result |-> "undefined", shuffled |-> ArrayOf(<<>>)]

\* variant of IsEmpty: the guard on the empty collection is missing
IsEmptyNever(obj) == FALSE

\* array.length === 0
IsEmpty(obj) == Length(obj) = 0

\* variant of SpreadRef: const arr = array, the local names the argument itself
AliasRef(src) == src

\* the object [...array] evaluates to: a new one, not the argument
SpreadRef(src) == "copy"

Init ==
  /\ pc = "idle"
  /\ date = NotADate
  /\ heap = [array |-> ArrayOf(<<>>), copy |-> ArrayOf(<<>>)]
  /\ arr = "copy"
  /\ seed = Undefined
  /\ dayIndex = Undefined
  /\ random = Undefined
  /\ i = 0
  /\ j = Undefined
  /\ result = "undefined"
  /\ calls = 0
  /\ first = NoFirst

\* selectByDate(h.array, d) up to the first test of the loop of seededShuffle
Enter(h, d) ==
  /\ j' = Undefined
  /\ IF IsEmpty(h.array)
     THEN /\ pc' = "done"
          /\ result' = "null"
          /\ heap' = h
          /\ arr' = "copy"
          /\ seed' = Undefined
          /\ dayIndex' = Undefined
          /\ random' = Undefined
          /\ i' = 0
     ELSE IF ~d.isDate
     THEN /\ pc' = "fault"          \* date.getTime is not a function
          /\ result' = "undefined"
          /\ heap' = h
          /\ arr' = "copy"
          /\ seed' = Undefined
          /\ dayIndex' = Undefined
          /\ random' = Undefined
          /\ i' = 0
     ELSE /\ pc' = "loop"
          /\ result' = "undefined"
          /\ seed' = getCycleSeed(d, Length(h.array))
          /\ dayIndex' = getDayInCycle(d, Length(h.array))
          /\ arr' = SpreadRef("array")
          /\ heap' = [h EXCEPT ![SpreadRef("array")] = SpreadCopy(h.array)]
          /\ random' = getCycleSeed(d, Length(h.array))
          /\ i' = Length(h.array) - 1

\* a caller invokes selectByDate(a, d)
Call(a, d) ==
  /\ pc \in {"idle", "done", "fault"}
  /\ date' = d
  /\ calls' = 1
  /\ first' = NoFirst
  /\ Enter([array |-> a, copy |-> ArrayOf(<<>>)], d)

\* the caller invokes selectByDate again with the same array and date
Recall ==
  /\ pc = "done"
  /\ calls = 1
  /\ calls' = 2
  /\ first' = [result |-> result, shuffled |-> heap[arr]]
  /\ date' = date
  /\ Enter([heap EXCEPT !.copy = ArrayOf(<<>>)], date)

\* one iteration of the loop of seededShuffle
ShuffleStep ==
  /\ pc = "loop"
  /\ i > 0
  /\ random' = seededRandomState(random)
  /\ j' = drawIndex(seededRandomState(random), i)
  /\ heap' = [heap EXCEPT ![arr] = swap(heap[arr], i, drawIndex(seededRandomState(random), i))]
  /\ i' = i - 1
  /\ UNCHANGED <<pc, date, arr, seed, dayIndex, result, calls, first>>

\* the loop ends; selectByDate returns shuffled[dayIndex]
Return ==
  /\ pc = "loop"
  /\ i <= 0
  /\ result' = Get(heap[arr], dayIndex)
  /\ pc' = "done"
  /\ UNCHANGED <<date, heap, arr, seed, dayIndex, random, i, j, calls, first>>

Next ==
  \/ \E a \in Collections, d \in Dates : Call(a, d)
  \/ Recall
  \/ ShuffleStep
  \/ Return

Spec == Init /\ [][Next]_vars

\* ------------------------------------------------------------ properties
\* the call in progress received a Date with a finite time value
FiniteDate == date.isDate /\ date.time.kind = "num"

\* the mathematical day count of a finite date: floor(ms / 86400000)
DayOf(d) == d.time.n \div MsPerDay

\* the date one day after a finite date
NextDay(d) == DateOf(d.time.n + MsPerDay)

Range(seq) == {seq[x] : x \in DOMAIN seq}

Count(seq, v) == Cardinality({x \in DOMAIN seq : seq[x] = v})

\* seq2 holds the elements of seq1, each as often as seq1 does
SameMultiset(seq1, seq2) ==
  /\ Len(seq1) = Len(seq2)
  /\ \A v \in Range(seq1) \cup Range(seq2) : Count(seq1, v) = Count(seq2, v)

\* the days d with floor(d / n) = s
CycleDays(s, n) == {s * n + k : k \in 0..(n - 1)}

\* C1: the N days sharing the cycle seed of the date of a finished call on a
\* non-empty collection make selectByDate return N pairwise-distinct items
\* that cover the collection, the item just returned among them.
NoRepeatWithinCycle ==
  (pc = "done" /\ FiniteDate /\ Length(heap.array) > 0) =>
    LET n     == Length(heap.array)
        days  == CycleDays(DayOf(date) \div n, n)
        shown == {selectByDate(heap.array, DateOf(d * MsPerDay)) : d \in days}
    IN  /\ shown = Range(heap.array.elems)
        /\ Cardinality(shown) = n
        /\ result \in shown

\* C2: for an integer seed the sequence seededShuffle returns has the
\* length of the collection and holds each of its elements exactly as often.
ShuffleIsBijection ==
  (pc = "done" /\ seed.kind = "num") =>
    /\ SameMultiset(heap.array.elems, heap[arr].elems)
    /\ heap[arr] = seededShuffle(heap.array, seed)

\* C3: for a finite date and N > 0 the position getDayInCycle computed is
\* the floored day count mod N, an integer of 0 .. N-1.
PositionInRange ==
  (pc \in {"loop", "done"} /\ FiniteDate /\ Length(heap.array) > 0) =>
    /\ dayIndex.kind = "num"
    /\ dayIndex.n \in 0..(Length(heap.array) - 1)
    /\ dayIndex.n = DayOf(date) % Length(heap.array)

\* C4: a call on a collection of length 0 has returned null, for every date
\* (an Invalid Date and a value that is no Date too), without computing the
\* cycle seed or the position and without starting the generator or faulting.
EmptyReturnsNull ==
  (calls >= 1 /\ Length(heap.array) = 0) =>
    /\ pc = "done"
    /\ result = "null"
    /\ seed = Undefined
    /\ dayIndex = Undefined
    /\ random = Undefined

EmptyReturnsNullWitness ==
  /\ calls >= 1
  /\ Length(heap.array) = 0
  /\ date = NotADate
  /\ pc = "done"
  /\ result = "null"

\* C5: the second of two calls with the same collection and date returns
\* what the first returned, and its shuffle is the permutation of the first.
SecondCallSameResult ==
  (calls = 2 /\ pc = "done") =>
    /\ result = first.result
    /\ heap[arr] = first.shuffled

SecondCallWitness ==
  /\ calls = 2
  /\ pc = "done"
  /\ Length(heap.array) >= 3
  /\ heap[arr].elems # heap.array.elems
  /\ result = first.result

\* C6: no step of a call (a loop iteration, the return, the start of a
\* second call on the same collection) changes the caller's collection.
InputNotMutated ==
  [][(pc = "loop" \/ calls' = 2) => heap'.array = heap.array]_vars

InputNotMutatedWitness ==
  /\ pc = "done"
  /\ arr = "copy"
  /\ Length(heap.array) >= 2
  /\ heap.copy.elems # heap.array.elems
  /\ SameMultiset(heap.copy.elems, heap.array.elems)

\* C7: a call on a non-empty collection with a date that has no finite time
\* value ends in a fault; it does not return.
InvalidDateFaults ==
  (pc \in {"done", "fault"} /\ calls >= 1 /\ Length(heap.array) > 0 /\ ~FiniteDate) =>
    pc = "fault"

\* C8: the position of the date of a finished call is in 0 .. N-1; on the
\* next day the position is one more and the cycle seed the same, except
\* from position N-1, where the position wraps to 0 and the seed is one more.
PositionSweep ==
  (pc = "done" /\ FiniteDate /\ Length(heap.array) > 0) =>
    LET n  == Length(heap.array)
        p  == getDayInCycle(date, n)
        s  == getCycleSeed(date, n)
        p1 == getDayInCycle(NextDay(date), n)
        s1 == getCycleSeed(NextDay(date), n)
    IN  /\ p = dayIndex
        /\ s = seed
        /\ p.n \in 0..(n - 1)
        /\ p.n < n - 1 => (p1.n = p.n + 1 /\ s1.n = s.n)
        /\ p.n = n - 1 => (p1.n = 0 /\ s1.n = s.n + 1)

\* C9: after every iteration of the shuffle loop run from an integer seed
\* the generator state is in 0 .. 233279 (so the fraction is in [0, 1)) and
\* the drawn index j is between 0 and the index i of that iteration.
SwapIndexInBounds ==
  (pc \in {"loop", "done"} /\ seed.kind = "num" /\ j # Undefined) =>
    /\ random.kind = "num"
    /\ random.n \in 0..(Modulus - 1)
    /\ j.kind = "num"
    /\ j.n \in 0..(i + 1)

\* C10: for ["A","B","C"] and a date of day count 10 the seed is 3 and the
\* position 1, the generator states are 77200 and 50657, both draws are 0,
\* the permutation is ["B","C","A"] and the value returned is "C".
ConcreteScenario ==
  (heap.array = ArrayOf(<<"A", "B", "C">>) /\ FiniteDate /\ DayOf(date) = 10) =>
    /\ pc \in {"loop", "done"}
    /\ seed = Num(3)
    /\ dayIndex = Num(1)
    /\ (pc = "loop" /\ i = 2) => random = Num(3)
    /\ (pc = "loop" /\ i = 1) =>
         (random = Num(77200) /\ j = Num(0) /\ heap[arr].elems = <<"C", "B", "A">>)
    /\ (pc = "done" \/ i = 0) =>
         (random = Num(50657) /\ j = Num(0) /\ heap[arr].elems = <<"B", "C", "A">>)
    /\ pc = "done" => result = "C"

ConcreteScenarioWitness ==
  /\ heap.array = ArrayOf(<<"A", "B", "C">>)
  /\ FiniteDate
  /\ DayOf(date) = 10
  /\ pc = "done"
  /\ heap[arr].elems = <<"B", "C", "A">>
  /\ result = "C"

====
